---- MODULE Spec2Model ----
(***************************************************************************)
(* Model of the "social code runner": the two compile proxies (Wandbox and *)
(* Piston), the code editor with its stdin-simulating terminal, the group  *)
(* and direct chat views and the row-level-security policies of the        *)
(* database tables.                                                        *)
(*                                                                         *)
(* Text is a sequence of atoms.  An atom is one character ("a", " ",       *)
(* "\n") or an opaque chunk of text without a newline (a fixed notice or   *)
(* an error message).  The empty text <<>> is JavaScript's "".             *)
(***************************************************************************)
EXTENDS Integers, Sequences, FiniteSets, TLC

VARIABLES
    proxy,        \* last request served by a compile proxy: body, forwarded body, response
    code,         \* CodeEditor: code
    output,       \* CodeEditor: output
    error,        \* CodeEditor: error
    running,      \* CodeEditor: running
    needsInput,   \* CodeEditor: needsInput
    showSaved,    \* CodeEditor: showSaved
    savedCodes,   \* CodeEditor: savedCodes (the saved-code panel's list)
    term,         \* InteractiveTerminal: lines, currentInput, collectedInputs, showCursor, prevOutputRef, prevErrorRef
    req,          \* the compile/run request in flight (handleRun suspended at its await)
    hist,         \* history of the current run: what Run was pressed on, requests issued, lines submitted, last response
    messages,     \* table public.messages
    direct_messages, \* table public.direct_messages
    saved_codes,  \* table public.saved_codes
    nextId,       \* next row id / creation time
    chat,         \* GroupChat: input, codeMode, codeInput
    dm,           \* DirectChat: targetUserId, messages, input, codeMode, codeInput
    dmFetches,    \* DirectChat: fetchMessages calls in flight, and change notifications on their way
    group,        \* GroupChat: displayed messages, fetches in flight, notifications on their way, editingId, editContent
    unread,       \* useUnreadMessages: its state, localStorage, its queries and notifications in flight
    audit         \* history of the stored rows: who inserted them, their values then, who wrote them last

vars == <<proxy, code, output, error, running, needsInput, showSaved, savedCodes,
          term, req, hist, messages, direct_messages, saved_codes, nextId,
          chat, dm, dmFetches, unread, group, audit>>

-----------------------------------------------------------------------------
(* Text helpers: String.prototype.startsWith, slice, split, trim, join.     *)

NL == "\n"
EmptyText == <<>>

Truthy(s) == s # EmptyText

StartsWith(s, p) == Len(p) <= Len(s) /\ SubSeq(s, 1, Len(p)) = p

Slice(s, n) == SubSeq(s, n + 1, Len(s))

RECURSIVE SplitFrom(_, _, _)
SplitFrom(s, i, cur) ==
    IF i > Len(s) THEN <<cur>>
    ELSE IF s[i] = NL THEN <<cur>> \o SplitFrom(s, i + 1, <<>>)
    ELSE SplitFrom(s, i + 1, Append(cur, s[i]))

\* s.split("\n")
Split(s) == SplitFrom(s, 1, <<>>)

IsSpace(c) == c \in {" ", NL}

RECURSIVE TrimStart(_)
TrimStart(s) ==
    IF s # <<>> /\ IsSpace(Head(s)) THEN TrimStart(Tail(s)) ELSE s

RECURSIVE TrimEnd(_)
TrimEnd(s) ==
    IF s # <<>> /\ IsSpace(s[Len(s)]) THEN TrimEnd(SubSeq(s, 1, Len(s) - 1)) ELSE s

\* s.trim()
Trim(s) == TrimEnd(TrimStart(s))

RECURSIVE JoinNL(_)
\* xs.join("\n")
JoinNL(xs) ==
    IF xs = <<>> THEN <<>>
    ELSE IF Len(xs) = 1 THEN xs[1]
    ELSE xs[1] \o <<NL>> \o JoinNL(Tail(xs))

\* the values JavaScript calls null and undefined
Null == <<"<null>">>
Undefined == <<"<undefined>">>

-----------------------------------------------------------------------------
(* The compile proxies.                                                    *)

NoOutput == <<"(no output)">>

\* The texts a third-party service answers with.
ProgramOutputs == { <<>>, <<"a", NL, NL, "b">> }
CompilerTexts == { <<>>, <<"cc: text">> }
CompilerMessages == { <<>>, <<"cc: message">> }
StderrTexts == { <<>>, <<"stderr text">> }

\* Wandbox's answer.  compiled says whether the compiler produced a program;
\* the handler cannot read it.  A program that was not compiled printed
\* nothing and the status is the compiler's, which is not zero; status <<>>
\* is a missing status.
WandboxResults ==
    { r \in [ program_output : ProgramOutputs, compiler_error : CompilerTexts,
              compiler_message : CompilerMessages, program_error : StderrTexts,
              status : { <<>>, <<"0">>, <<"1">> }, compiled : BOOLEAN ] :
        ~r.compiled => /\ r.program_output = <<>>
                       /\ r.program_error = <<>>
                       /\ r.status = <<"1">>
                       /\ r.compiler_error # <<>> }

\* Piston's answer: run is missing when has_run is false.
PistonResults ==
    { r \in [ compile_stderr : CompilerTexts, has_run : BOOLEAN,
              run_output : ProgramOutputs, run_stderr : StderrTexts,
              run_code : {0, 1}, compiled : BOOLEAN ] :
        /\ ~r.has_run => r.run_output = <<>> /\ r.run_stderr = <<>> /\ r.run_code = 0
        /\ ~r.compiled => r.run_output = <<>> /\ r.compile_stderr # <<>> }

\* The request bodies a client sends: code may be missing, stdin may be absent.
StdinTexts == { <<>>, <<"x">>, <<"x", NL, "y">> }
RequestBodies == [ code : { <<>>, <<"src">> }, stdin : StdinTexts \cup {Undefined} ]

\* parseInt(status)
ParseInt(s) == IF s = <<"1">> THEN 1 ELSE 0

\* status !== "0" after `result.status || "0"`
WandboxStatus(r) == IF Truthy(r.status) THEN r.status ELSE <<"0">>

\* const hasCompileError = compileError && !output && status !== "0"
WandboxHasCompileError(r) ==
    Truthy(r.compiler_error) /\ ~Truthy(r.program_output) /\ WandboxStatus(r) # <<"0">>

WandboxReshapePlaceholderAlways(r) ==
    [ output |-> IF Truthy(r.program_output) THEN r.program_output ELSE NoOutput,
      compileError |-> IF WandboxHasCompileError(r)
                       THEN (IF Truthy(r.compiler_error) THEN r.compiler_error
                             ELSE r.compiler_message)
                       ELSE <<>>,
      runtimeError |-> r.program_error,
      exitCode |-> ParseInt(WandboxStatus(r)),
      success |-> ~WandboxHasCompileError(r) /\ WandboxStatus(r) = <<"0">> ]

\* the JSON the Wandbox handler answers with
WandboxReshape(r) ==
    [ output |-> IF Truthy(r.program_output) THEN r.program_output
                 ELSE IF WandboxHasCompileError(r) THEN <<>> ELSE NoOutput,
      compileError |-> IF WandboxHasCompileError(r)
                       THEN (IF Truthy(r.compiler_error) THEN r.compiler_error
                             ELSE r.compiler_message)
                       ELSE <<>>,
      runtimeError |-> r.program_error,
      exitCode |-> ParseInt(WandboxStatus(r)),
      success |-> ~WandboxHasCompileError(r) /\ WandboxStatus(r) = <<"0">> ]

\* the body the Wandbox handler posts to the service: stdin: stdin || ""
WandboxForward(body) ==
    [ code |-> body.code,
      stdin |-> IF body.stdin # Undefined /\ Truthy(body.stdin) THEN body.stdin ELSE <<>> ]

\* the body the Piston handler posts to the service: stdin: ""
PistonForward(body) == [ code |-> body.code, stdin |-> <<>> ]

\* the JSON the Piston handler answers with
PistonReshape(r) ==
    [ output |-> r.run_output,
      compileError |-> r.compile_stderr,
      runtimeError |-> r.run_stderr,
      exitCode |-> r.run_code,
      success |-> ~Truthy(r.compile_stderr) /\ r.run_code = 0 ]

NoForward == [ code |-> <<>>, stdin |-> <<>> ]
NoResponse == [ output |-> <<>>, compileError |-> <<>>, runtimeError |-> <<>>,
                exitCode |-> 0, success |-> FALSE ]
NoWandboxResult ==
    [ program_output |-> <<>>, compiler_error |-> <<>>, compiler_message |-> <<>>,
      program_error |-> <<>>, status |-> <<>>, compiled |-> TRUE ]

ProxyIdle ==
    [ endpoint |-> "none", kind |-> "none", body |-> [code |-> <<>>, stdin |-> <<>>],
      wandbox |-> NoWandboxResult,
      piston |-> [ compile_stderr |-> <<>>, has_run |-> FALSE, run_output |-> <<>>,
                   run_stderr |-> <<>>, run_code |-> 0, compiled |-> TRUE ],
      forwarded |-> NoForward, response |-> NoResponse ]

\* `if (!code || typeof code !== "string")`: answer 400 and forward nothing
ProxyRejects(endpoint) ==
    \E body \in RequestBodies :
        /\ ~Truthy(body.code)
        /\ proxy' = [ ProxyIdle EXCEPT !.endpoint = endpoint, !.kind = "400", !.body = body ]

\* `if (!response.ok)`: the service failed, answer 500
ProxyServiceFails(endpoint) ==
    \E body \in RequestBodies :
        /\ Truthy(body.code)
        /\ proxy' = [ ProxyIdle EXCEPT !.endpoint = endpoint, !.kind = "500", !.body = body,
                        !.forwarded = IF endpoint = "wandbox" THEN WandboxForward(body)
                                      ELSE PistonForward(body) ]

WandboxServe ==
    \E body \in RequestBodies, r \in WandboxResults :
        /\ Truthy(body.code)
        /\ proxy' = [ ProxyIdle EXCEPT !.endpoint = "wandbox", !.kind = "200", !.body = body,
                        !.wandbox = r, !.forwarded = WandboxForward(body),
                        !.response = WandboxReshape(r) ]

PistonServe ==
    \E body \in RequestBodies, r \in PistonResults :
        /\ Truthy(body.code)
        /\ proxy' = [ ProxyIdle EXCEPT !.endpoint = "piston", !.kind = "200", !.body = body,
                        !.piston = r, !.forwarded = PistonForward(body),
                        !.response = PistonReshape(r) ]

-----------------------------------------------------------------------------
(* The database: users, row ids and the saved_codes table used by the      *)
(* editor.  auth.uid() is NoUser for a request without a signed-in user.   *)

Users == {"u1", "u2", "u3"}
NoUser == "anon"
Me == "u1"

\* Rows saved in earlier sessions: a snippet of the signed-in user, saved
\* before anything was run, and a snippet of another user.
EarlierSavedCodes ==
    { [ id |-> 1, user_id |-> Me, title |-> <<"t">>, code |-> <<"cout << 1;">>,
        output |-> Null ],
      [ id |-> 2, user_id |-> "u2", title |-> <<"t">>, code |-> <<"cout << 1;">>,
        output |-> <<"a", NL, "b">> ] }

\* the largest row id the model hands out
MaxRowId == 3

\* the most change notifications on their way to one channel
MaxNotes == 1

\* the most queries of the group chat in flight when another one is sent
MaxCalls == 2

SavedSelectPolicyAnyUser(uid, row) == uid # NoUser

\* USING (auth.uid() = user_id) of "Users can view own saved codes"
SavedSelectPolicy(uid, row) == uid # NoUser /\ uid = row.user_id

\* WITH CHECK (auth.uid() = user_id) of "Users can insert own saved codes"
SavedInsertPolicy(uid, row) == uid # NoUser /\ uid = row.user_id

\* USING (auth.uid() = user_id) of "Users can delete own saved codes"
SavedDeletePolicy(uid, row) == uid # NoUser /\ uid = row.user_id

\* select * from saved_codes, as user uid, without a filter
SavedSelectAll(uid) == { row \in saved_codes : SavedSelectPolicy(uid, row) }

\* select * from saved_codes, as user uid, restricted by the filter eq("user_id", owner)
SavedSelectEq(uid, owner) ==
    { row \in saved_codes : SavedSelectPolicy(uid, row) /\ row.user_id = owner }

\* Group messages sent in earlier sessions.
EarlierMessages ==
    { [ id |-> 21, user_id |-> "u1", text |-> Null, code_content |-> <<"x">>,
        code_language |-> <<"python">> ],
      [ id |-> 22, user_id |-> "u2", text |-> <<"h", "i">>, code_content |-> <<"x">>,
        code_language |-> <<"python">> ] }

\* The history of the stored rows, kept beside the tables: inserted is who
\* inserted a row of this behaviour, orig is a group message as it was
\* inserted, writer is who last updated a group message's code_content.
AuditInit == [ inserted |-> {}, orig |-> EarlierMessages, writer |-> {} ]

AuditInsert(a, uid, id) == [ a EXCEPT !.inserted = @ \cup { [ id |-> id, by |-> uid ] } ]

AuditInsertMessage(a, uid, row) ==
    [ a EXCEPT !.inserted = @ \cup { [ id |-> row.id, by |-> uid ] },
               !.orig = @ \cup { row } ]

\* the history of the rows with an id of ids
AuditKeep(a, ids) ==
    [ inserted |-> { e \in a.inserted : e.id \in ids },
      orig |-> { e \in a.orig : e.id \in ids },
      writer |-> { e \in a.writer : e.id \in ids } ]

\* the history without the deleted row
AuditForget(a, id) ==
    [ inserted |-> { e \in a.inserted : e.id # id },
      orig |-> { e \in a.orig : e.id # id },
      writer |-> { e \in a.writer : e.id # id } ]

\* the history after uid wrote the code_content of row id
AuditWrite(a, uid, id) ==
    [ a EXCEPT !.writer = { e \in @ : e.id # id } \cup { [ id |-> id, by |-> uid ] } ]

\* useUnreadMessages.  Timestamps are row ids: a row inserted in this
\* behaviour was created at its id, an earlier row at 0, and new Date() is the
\* id the next row gets, so created_at > t holds for the rows inserted since
\* t was taken.  The timestamp 0 is the empty string.
NoTime == 0

\* no sender has a counter or a last-seen entry
NoEntries == [ s \in Users |-> 0 ]

\* the hook is not mounted and localStorage holds nothing
UnreadInit ==
    [ mounted |-> FALSE, user |-> NoUser,
      unreadGroup |-> 0, unreadDMs |-> NoEntries,
      lastSeenGroup |-> NoTime, lastSeenDM |-> NoEntries,
      storedGroup |-> NoTime, storedDM |-> NoEntries,
      groupCalls |-> {}, dmCalls |-> {}, notes |-> {} ]

\* the INSERT notification of a row: the channels of the hook receive it when
\* the hook is subscribed and the select policy of the table shows the row to
\* the signed-in user (every group message; a direct message of which the
\* user is the sender or the receiver)
UnreadNotified(u, table, id, from, to) ==
    IF u.mounted /\ u.user # NoUser /\ (table = "messages" \/ u.user \in {from, to})
    THEN [ u EXCEPT !.notes = @ \cup { [ table |-> table, id |-> id, from |-> from,
                                          to |-> to ] } ]
    ELSE u

-----------------------------------------------------------------------------
(* The code editor and its terminal.                                       *)

Compiling == <<"Compiling & executing...">>
Finished == <<"Program finished successfully">>
FailedToExecute == <<"Failed to execute code">>

\* The programs a user edits: whether the text matches
\* /\b(cin\s*>>|scanf\s*\(|getline\s*\(|gets\s*\()/ is a property of the text.
ReadingCodes == { <<"int x; cin >> x;">> }
\* the program the editor opens with; it reads nothing
DEFAULT_CODE == <<"cout << 1;">>
PlainCodes == { DEFAULT_CODE }
Codes == ReadingCodes \cup PlainCodes

detectNeedsInput(c) == c \in ReadingCodes

\* what a user types into the terminal's input field
InputTexts == { <<>>, <<"x">>, <<" ", "y", " ">> }

\* messages of a failed functions.invoke and of a thrown exception
FnErrorMessages == { <<"Edge Function returned a non-2xx status code">> }
ThrownMessages == { <<>>, <<"Failed to fetch">> }

Line(type, text) == [ type |-> type, text |-> text ]

TermInit ==
    [ lines |-> <<>>, currentInput |-> <<>>, collectedInputs |-> <<>>,
      showCursor |-> FALSE, prevOutputRef |-> <<>>, prevErrorRef |-> <<>> ]

ResetEffectKeepsInputs(t, run) ==
    IF run
    THEN [ lines |-> << Line("info", Compiling) >>, currentInput |-> <<>>,
           collectedInputs |-> t.collectedInputs, showCursor |-> FALSE,
           prevOutputRef |-> <<>>, prevErrorRef |-> <<>> ]
    ELSE t

\* useEffect(..., [running]): reset on run
ResetEffect(t, run) ==
    IF run
    THEN [ lines |-> << Line("info", Compiling) >>, currentInput |-> <<>>,
           collectedInputs |-> <<>>, showCursor |-> FALSE,
           prevOutputRef |-> <<>>, prevErrorRef |-> <<>> ]
    ELSE t

\* useEffect(..., [error, running]): handle error
ErrorEffect(t, run, err) ==
    IF ~run /\ Truthy(err) /\ err # t.prevErrorRef
    THEN [ t EXCEPT !.prevErrorRef = err, !.lines = << Line("error", err) >>,
                    !.showCursor = FALSE ]
    ELSE t

NeedsInputEffectAlways(t, run, ni) ==
    IF run THEN t ELSE [ t EXCEPT !.showCursor = TRUE ]

\* useEffect(..., [needsInput, running]): show the input field
NeedsInputEffect(t, run, ni) ==
    IF run THEN t
    ELSE IF ni THEN [ t EXCEPT !.showCursor = TRUE ]
    ELSE t

\* newText.split("\n").filter(l => l !== "").map(l => ({type: "output", text: l}))
OutputLines(text) ==
    LET parts == Split(text)
        kept == SelectSeq(parts, LAMBDA l : l # <<>>)
    IN [ i \in 1..Len(kept) |-> Line("output", kept[i]) ]

\* useEffect(..., [output, needsInput, running]): append the new part of the output
OutputEffect(t, run, out, ni) ==
    IF run THEN t
    ELSE IF ~Truthy(out) /\ ~ni THEN t
    ELSE LET newText == IF StartsWith(out, t.prevOutputRef)
                        THEN Slice(out, Len(t.prevOutputRef))
                        ELSE out
             t1 == [ t EXCEPT !.prevOutputRef = out ]
         IN IF ~Truthy(newText) THEN t1
            ELSE LET t2 == [ t1 EXCEPT !.lines = @ \o OutputLines(newText) ]
                 IN IF ~ni
                    THEN [ t2 EXCEPT !.showCursor = FALSE,
                                     !.lines = @ \o << Line("info", Finished) >> ]
                    ELSE t2

\* The effects React runs after a render, in the order they are declared:
\* each runs when one of its dependencies changed.  old and new are the
\* props [running, output, error, needsInput] before and after.
RunEffects(t, old, new) ==
    LET t1 == IF new.running # old.running THEN ResetEffect(t, new.running) ELSE t
        t2 == IF new.error # old.error \/ new.running # old.running
              THEN ErrorEffect(t1, new.running, new.error) ELSE t1
        t3 == IF new.needsInput # old.needsInput \/ new.running # old.running
              THEN NeedsInputEffect(t2, new.running, new.needsInput) ELSE t2
    IN IF new.output # old.output \/ new.needsInput # old.needsInput
          \/ new.running # old.running
       THEN OutputEffect(t3, new.running, new.output, new.needsInput) ELSE t3

\* everything that is not the editor's or the saved_codes table
OutsideEditor == <<proxy, messages, direct_messages, chat, dm, dmFetches, unread, group, audit>>

Props == [ running |-> running, output |-> output, error |-> error,
           needsInput |-> needsInput ]

HistInit ==
    [ runMatched |-> FALSE, requests |-> <<>>, submitted |-> <<>>,
      crashed |-> FALSE ]

NoReq == [ active |-> FALSE, first |-> FALSE, stdin |-> <<>> ]

\* handleRun(stdinInput) up to its await: the state it sets, the request it
\* issues and the effects of the render that follows.  t is the terminal
\* state the calling event handler leaves.
HandleRunStart(stdinInput, t) ==
    LET new == [ running |-> TRUE, output |-> <<>>, error |-> <<>>, needsInput |-> FALSE ]
    IN /\ running' = TRUE
       /\ output' = <<>>
       /\ error' = <<>>
       /\ needsInput' = FALSE
       /\ req' = [ active |-> TRUE,
                   first |-> detectNeedsInput(code) /\ ~Truthy(stdinInput),
                   stdin |-> stdinInput ]
       /\ term' = RunEffects(t, Props, new)

\* the Run button: onClick={() => handleRun()}, disabled={running}
RunPress ==
    /\ ~running
    /\ HandleRunStart(<<>>, term)
    /\ hist' = [ HistInit EXCEPT !.runMatched = detectNeedsInput(code),
                                 !.requests = << <<>> >> ]
    /\ UNCHANGED <<code, showSaved, savedCodes, saved_codes, nextId, OutsideEditor>>

\* the editor's onChange: setCode(val || "")
SetCode ==
    \E c \in Codes :
        /\ c # code
        /\ code' = c
        /\ UNCHANGED <<output, error, running, needsInput, showSaved, savedCodes, term, req, hist, saved_codes, nextId, OutsideEditor>>

\* the input field's onChange: setCurrentInput(e.target.value)
TypeInput ==
    \E s \in InputTexts :
        /\ term.showCursor
        /\ s # term.currentInput
        /\ term' = [ term EXCEPT !.currentInput = s ]
        /\ UNCHANGED <<code, output, error, running, needsInput, showSaved, savedCodes, req, hist, saved_codes, nextId, OutsideEditor>>

SubmittedStdinOldInputs(t) == JoinNL(t.collectedInputs)

\* handleKeyDown: onSubmitInput(newInputs.join("\n"))
SubmittedStdin(t) == JoinNL(Append(t.collectedInputs, Trim(t.currentInput)))

\* handleKeyDown on Enter, then handleTerminalInput -> handleRun(stdin)
KeyDownEnter ==
    LET inputValue == Trim(term.currentInput)
        t == [ term EXCEPT !.lines = Append(@, Line("input", inputValue)),
                           !.collectedInputs = Append(@, inputValue),
                           !.currentInput = <<>>,
                           !.showCursor = FALSE ]
    IN /\ term.showCursor
       /\ Truthy(inputValue)
       /\ HandleRunStart(SubmittedStdin(term), t)
       /\ hist' = [ hist EXCEPT !.requests = Append(@, SubmittedStdin(term)),
                                !.submitted = Append(@, inputValue),
                                !.crashed = FALSE ]
       /\ UNCHANGED <<code, showSaved, savedCodes, saved_codes, nextId, OutsideEditor>>

handleClearKeepsRefs(t) ==
    [ t EXCEPT !.lines = <<>>, !.collectedInputs = <<>>, !.currentInput = <<>>,
               !.showCursor = FALSE ]

\* handleClear: the four setters and the two refs
handleClear(t) ==
    [ t EXCEPT !.lines = <<>>, !.collectedInputs = <<>>, !.currentInput = <<>>,
               !.showCursor = FALSE, !.prevOutputRef = <<>>, !.prevErrorRef = <<>> ]

\* the Clear button, offered when lines.length > 0
HandleClear ==
    /\ Len(term.lines) > 0
    /\ term' = handleClear(term)
    /\ UNCHANGED <<code, output, error, running, needsInput, showSaved, savedCodes, req, hist, saved_codes, nextId, OutsideEditor>>

\* What the awaited functions.invoke("run-cpp") gives handleRun: a transport
\* or HTTP failure (fnError), a thrown exception, or the JSON of the proxy.
\* crashed: the answer is that of a program that compiled and exited with a
\* status other than zero.
InvokeOutcomes ==
    { [ kind |-> "fnError", msg |-> m, data |-> NoResponse, crashed |-> FALSE ] :
        m \in FnErrorMessages }
    \cup { [ kind |-> "throw", msg |-> m, data |-> NoResponse, crashed |-> FALSE ] :
        m \in ThrownMessages }
    \cup { [ kind |-> "data", msg |-> <<>>, data |-> WandboxReshape(r),
             crashed |-> r.compiled /\ WandboxStatus(r) # <<"0">> ] :
        r \in WandboxResults }

WarnPrefix == << NL, "(!) " >>

\* handleRun after its await when the first request (code reads stdin, no
\* stdin yet) returns: the props it leaves
FinishFirst(o) ==
    LET d == o.data
        base == [ running |-> FALSE, output |-> output, error |-> error,
                  needsInput |-> needsInput ]
    IN IF o.kind = "fnError" THEN [ base EXCEPT !.error = <<"Error: ">> \o o.msg ]
       ELSE IF o.kind = "throw"
            THEN [ base EXCEPT !.error = IF Truthy(o.msg) THEN o.msg ELSE FailedToExecute ]
       ELSE IF Truthy(d.compileError) THEN [ base EXCEPT !.error = d.compileError ]
       ELSE [ base EXCEPT !.output = d.output, !.needsInput = TRUE ]

\* handleRun after its await in the plain branch: the props it leaves
FinishSecond(o) ==
    LET d == o.data
        base == [ running |-> FALSE, output |-> output, error |-> error,
                  needsInput |-> needsInput ]
        shown == IF Truthy(d.output) THEN d.output ELSE NoOutput
    IN IF o.kind = "fnError" THEN [ base EXCEPT !.error = <<"Error: ">> \o o.msg ]
       ELSE IF o.kind = "throw"
            THEN [ base EXCEPT !.error = IF Truthy(o.msg) THEN o.msg ELSE FailedToExecute ]
       ELSE IF Truthy(d.compileError) THEN [ base EXCEPT !.error = d.compileError ]
       ELSE IF Truthy(d.runtimeError) /\ ~Truthy(d.output)
            THEN [ base EXCEPT !.error = d.runtimeError ]
       ELSE [ base EXCEPT !.output = IF Truthy(d.runtimeError)
                                     THEN shown \o WarnPrefix \o d.runtimeError
                                     ELSE shown ]

\* the response o of the request in flight arrives: the rest of handleRun,
\* its finally { setRunning(false) } and the effects of the render
RespondWith(o) ==
    LET new == IF req.first THEN FinishFirst(o) ELSE FinishSecond(o)
    IN /\ req.active
       /\ running' = new.running
       /\ output' = new.output
       /\ error' = new.error
       /\ needsInput' = new.needsInput
       /\ term' = RunEffects(term, Props, new)
       /\ req' = NoReq
       /\ hist' = [ hist EXCEPT !.crashed = o.crashed ]
       /\ UNCHANGED <<code, showSaved, savedCodes, saved_codes, nextId, OutsideEditor>>

Respond == \E o \in InvokeOutcomes : RespondWith(o)

\* fetchSaved: select * from saved_codes where user_id = user.id, then setSavedCodes
FetchSavedResult(table) ==
    { row \in table : SavedSelectPolicy(Me, row) /\ row.user_id = Me }

\* the saved-codes button: setShowSaved(!showSaved); the effect on
\* [showSaved, user] calls fetchSaved when the panel opens
ToggleShowSaved ==
    /\ showSaved' = ~showSaved
    /\ savedCodes' = IF showSaved' THEN FetchSavedResult(saved_codes) ELSE savedCodes
    /\ UNCHANGED <<code, output, error, running, needsInput, term, req, hist, saved_codes, nextId, OutsideEditor>>

SaveTitles == { <<"t", " ">> }

\* handleSave: insert the code with the current output, then fetchSaved
HandleSave ==
    \E title \in SaveTitles :
        LET row == [ id |-> nextId, user_id |-> Me, title |-> Trim(title), code |-> code,
                     output |-> IF Truthy(output) THEN output ELSE Null ]
        IN /\ Truthy(Trim(title))
           /\ nextId <= MaxRowId
           /\ SavedInsertPolicy(Me, row)
           /\ saved_codes' = saved_codes \cup {row}
           /\ nextId' = nextId + 1
           /\ savedCodes' = FetchSavedResult(saved_codes')
           /\ audit' = AuditInsert(audit, Me, row.id)
           /\ UNCHANGED <<code, output, error, running, needsInput, showSaved, term, req, hist>>
           /\ UNCHANGED <<proxy, messages, direct_messages, chat, dm, dmFetches, unread, group>>

MaxLines == 2

\* handleLoad(saved): a click on a row of the saved-codes panel
HandleLoad ==
    \E saved \in savedCodes :
        LET new == [ running |-> running,
                     output |-> IF saved.output # Null /\ Truthy(saved.output)
                                THEN saved.output ELSE <<>>,
                     error |-> <<>>, needsInput |-> needsInput ]
        IN /\ showSaved
           /\ Len(term.lines) <= MaxLines
           /\ code' = saved.code
           /\ output' = new.output
           /\ error' = <<>>
           /\ showSaved' = FALSE
           /\ term' = RunEffects(term, Props, new)
           /\ UNCHANGED <<running, needsInput, savedCodes, req, hist, saved_codes, nextId, OutsideEditor>>

\* handleDelete(id): delete the row, then drop it from the panel's list
HandleDelete ==
    \E saved \in savedCodes :
        /\ showSaved
        /\ saved_codes' = { row \in saved_codes :
                              ~(row.id = saved.id /\ SavedDeletePolicy(Me, row)) }
        /\ savedCodes' = { s \in savedCodes : s.id # saved.id }
        /\ audit' = AuditKeep(audit, { row.id : row \in saved_codes' } \cup
                                     { row.id : row \in messages \cup direct_messages })
        /\ UNCHANGED <<code, output, error, running, needsInput, showSaved, term, req, hist, nextId>>
        /\ UNCHANGED <<proxy, messages, direct_messages, chat, dm, dmFetches, unread, group>>

-----------------------------------------------------------------------------
EditorVars == <<code, output, error, running, needsInput, showSaved, savedCodes, term,
                req, hist>>
DbVars == <<messages, direct_messages, saved_codes, nextId, audit>>
ChatVars == <<chat, dm, dmFetches, unread, group>>

(* The group chat (GroupChat) and the table public.messages.                *)

ChatTexts == { <<>>, <<" ">>, <<"h", "i">> }
ChatCodes == { <<>>, <<" ">>, <<"x">> }

ChatInit == [ input |-> <<>>, codeMode |-> FALSE, codeInput |-> <<>>,
              codeLang |-> <<"python">> ]

\* the query of GroupChat, sent, then answered by the database, then delivered
GroupFetch == [ answered |-> FALSE, data |-> {} ]

\* no message is being edited: editingId is null
NoId == 0

\* the fetch effect at mount: fetchMessages() and subscribe
GroupInit == [ messages |-> {}, calls |-> { GroupFetch }, notes |-> 0,
               editingId |-> NoId, editContent |-> <<>> ]

\* a change of table messages: the channel is sent a notification
GroupNotes == IF group.notes < MaxNotes THEN group.notes + 1 ELSE group.notes

\* USING (auth.uid() = user_id) of "Users can update own messages"; without a
\* WITH CHECK the same expression is applied to the row as updated
MessagesUpdatePolicy(uid, row) == uid # NoUser /\ uid = row.user_id

\* USING (auth.uid() = user_id) of "Users can delete own messages"
MessagesDeletePolicy(uid, row) == uid # NoUser /\ uid = row.user_id

\* WITH CHECK (auth.uid() = user_id) of "Users can insert own messages"
MessagesInsertPolicy(uid, row) == uid # NoUser /\ uid = row.user_id

\* the row sendMessage inserts; x || null is null for the empty string
SentRow(c, lang) ==
    LET hasCode == c.codeMode /\ Truthy(Trim(c.codeInput))
    IN [ text |-> IF Truthy(c.input) THEN c.input ELSE Null,
         code_content |-> IF hasCode THEN c.codeInput ELSE Null,
         code_language |-> IF hasCode THEN lang ELSE Null ]

\* the input box: onChange={(e) => setInput(e.target.value)}
ChatSetInput ==
    \E t \in ChatTexts :
        /\ t # chat.input
        /\ chat' = [chat EXCEPT !.input = t]
        /\ UNCHANGED <<proxy, EditorVars, DbVars, dm, dmFetches, unread, group>>

\* the code button: setCodeMode(!codeMode)
ChatToggleCodeMode ==
    /\ chat' = [chat EXCEPT !.codeMode = ~chat.codeMode]
    /\ UNCHANGED <<proxy, EditorVars, DbVars, dm, dmFetches, unread, group>>

\* the code box, rendered in code mode only: setCodeInput(e.target.value)
ChatSetCodeInput ==
    \E t \in ChatCodes :
        /\ chat.codeMode
        /\ t # chat.codeInput
        /\ chat' = [chat EXCEPT !.codeInput = t]
        /\ UNCHANGED <<proxy, EditorVars, DbVars, dm, dmFetches, unread, group>>

\* sendMessage of the signed-in user
ChatSend ==
    /\ Truthy(Trim(chat.input)) \/ Truthy(Trim(chat.codeInput))
    /\ nextId <= MaxRowId
    /\ LET sent == SentRow(chat, chat.codeLang)
           row == [ id |-> nextId, user_id |-> Me, text |-> sent.text,
                    code_content |-> sent.code_content,
                    code_language |-> sent.code_language ]
       IN IF MessagesInsertPolicy(Me, row)
          THEN /\ messages' = messages \cup {row}
               /\ audit' = AuditInsertMessage(audit, Me, row)
               /\ group' = [group EXCEPT !.notes = GroupNotes]
               /\ unread' = UnreadNotified(unread, "messages", row.id, Me, NoUser)
          ELSE UNCHANGED <<messages, audit, group, unread>>
    /\ nextId' = nextId + 1
    /\ chat' = [chat EXCEPT !.input = <<>>, !.codeInput = <<>>, !.codeMode = FALSE]
    /\ UNCHANGED <<proxy, EditorVars, direct_messages, saved_codes, dm, dmFetches>>

\* TO authenticated USING (true) of "Messages are viewable by authenticated users"
MessagesSelectPolicy(uid, row) == uid # NoUser

\* select * from messages order by created_at limit 100, as user uid
MessagesSelect(uid) == { row \in messages : MessagesSelectPolicy(uid, row) }

\* a change notification reaches the channel "messages-realtime": its
\* callback sends the query again
GroupNotify ==
    /\ group.notes > 0
    /\ Cardinality(group.calls) < MaxCalls
    /\ group' = [ group EXCEPT !.calls = @ \cup { GroupFetch }, !.notes = @ - 1 ]
    /\ UNCHANGED <<proxy, EditorVars, DbVars, chat, dm, dmFetches, unread>>

\* the database runs the select of a query in flight
GroupAnswer ==
    \E f \in group.calls :
        /\ ~f.answered
        /\ group' = [ group EXCEPT !.calls = (@ \ {f}) \cup
               { [ answered |-> TRUE, data |-> MessagesSelect(Me) ] } ]
        /\ UNCHANGED <<proxy, EditorVars, DbVars, chat, dm, dmFetches, unread>>

\* a list that is patched with the rows of a response
GroupPatched(list, data) == list \cup data

\* setMessages(data): the response is the list
GroupReplaced(list, data) == data

\* the query resumes after its await: if (data) setMessages(data)
GroupDeliver ==
    \E f \in group.calls :
        /\ f.answered
        /\ group' = [ group EXCEPT !.calls = @ \ {f},
                                   !.messages = GroupReplaced(@, f.data) ]
        /\ UNCHANGED <<proxy, EditorVars, DbVars, chat, dm, dmFetches, unread>>

\* the select failed: data is null and the displayed messages stay
GroupFetchFails ==
    \E f \in group.calls :
        /\ ~f.answered
        /\ group' = [ group EXCEPT !.calls = @ \ {f} ]
        /\ UNCHANGED <<proxy, EditorVars, DbVars, chat, dm, dmFetches, unread>>

\* msg.code_content && ...: null and the empty text are falsy
HasCode(msg) == msg.code_content # Null /\ Truthy(msg.code_content)

\* startEdit(msg) for a displayed message; the edit button is rendered on
\* the signed-in user's messages that carry code, and startEdit checks again
StartEdit ==
    \E msg \in group.messages :
        /\ group' = IF HasCode(msg) /\ msg.user_id = Me
                    THEN [ group EXCEPT !.editingId = msg.id, !.editContent = msg.code_content ]
                    ELSE group
        /\ UNCHANGED <<proxy, EditorVars, DbVars, chat, dm, dmFetches, unread>>

EditTexts == { <<>>, <<"y">> }

\* the edit box, rendered inside the code block of the message being edited
SetEditContent ==
    \E t \in EditTexts, msg \in group.messages :
        /\ msg.id = group.editingId
        /\ HasCode(msg)
        /\ t # group.editContent
        /\ group' = [ group EXCEPT !.editContent = t ]
        /\ UNCHANGED <<proxy, EditorVars, DbVars, chat, dm, dmFetches, unread>>

\* update({ code_content: editContent }).eq("id", id) as the signed-in user
SaveEditUpdate(id, content) ==
    { IF row.id = id /\ MessagesUpdatePolicy(Me, row)
      THEN [row EXCEPT !.code_content = content] ELSE row : row \in messages }

\* saveEdit(msg.id): the Save button beside the edit box
SaveEdit ==
    \E msg \in group.messages :
        /\ msg.id = group.editingId
        /\ HasCode(msg)
        /\ messages' = SaveEditUpdate(msg.id, group.editContent)
        /\ LET hit == \E row \in messages : row.id = msg.id /\ MessagesUpdatePolicy(Me, row)
           IN /\ audit' = IF hit THEN AuditWrite(audit, Me, msg.id) ELSE audit
              /\ group' = [ group EXCEPT !.editingId = NoId, !.editContent = <<>>,
                                         !.notes = IF hit THEN GroupNotes ELSE @ ]
        /\ UNCHANGED <<proxy, EditorVars, direct_messages, saved_codes, nextId, chat, dm, dmFetches, unread>>

\* the Cancel button beside the edit box: setEditingId(null)
CancelEdit ==
    \E msg \in group.messages :
        /\ msg.id = group.editingId
        /\ HasCode(msg)
        /\ group' = [ group EXCEPT !.editingId = NoId ]
        /\ UNCHANGED <<proxy, EditorVars, DbVars, chat, dm, dmFetches, unread>>

-----------------------------------------------------------------------------
(* Direct messages (DirectChat) and the table public.direct_messages.       *)

\* Messages sent in earlier sessions.
EarlierDirectMessages ==
    { [ id |-> 11, sender_id |-> "u1", receiver_id |-> "u2", text |-> <<"h", "i">>,
        code_content |-> Null, code_language |-> Null ],
      [ id |-> 12, sender_id |-> "u3", receiver_id |-> "u1", text |-> <<"h", "i">>,
        code_content |-> Null, code_language |-> Null ] }

\* USING (auth.uid() = sender_id OR auth.uid() = receiver_id) of "Users can view own DMs"
DmSelectPolicy(uid, row) ==
    uid # NoUser /\ (uid = row.sender_id \/ uid = row.receiver_id)

DmInsertPolicyAnySender(uid, row) == uid # NoUser

\* WITH CHECK (auth.uid() = sender_id) of "Users can send DMs"
DmInsertPolicy(uid, row) == uid # NoUser /\ uid = row.sender_id

DmDeletePolicyEitherParty(uid, row) ==
    uid # NoUser /\ (uid = row.sender_id \/ uid = row.receiver_id)

\* USING (auth.uid() = sender_id) of "Users can delete own DMs"
DmDeletePolicy(uid, row) == uid # NoUser /\ uid = row.sender_id

\* The filters of a select on direct_messages: none, eq on one column, or the
\* or(and(sender.eq.a, receiver.eq.b), and(sender.eq.b, receiver.eq.a)) of fetchMessages.
DmFilters ==
    [ kind : {"all", "sender", "receiver", "pair"}, a : Users, b : Users ]

DmMatches(f, row) ==
    CASE f.kind = "all" -> TRUE
      [] f.kind = "sender" -> row.sender_id = f.a
      [] f.kind = "receiver" -> row.receiver_id = f.a
      [] f.kind = "pair" -> \/ (row.sender_id = f.a /\ row.receiver_id = f.b)
                            \/ (row.sender_id = f.b /\ row.receiver_id = f.a)

\* the rows a select with filter f returns to user uid
DmSelect(uid, f) ==
    { row \in direct_messages : DmSelectPolicy(uid, row) /\ DmMatches(f, row) }

\* the query of fetchMessages for the render that had target as targetUserId
DmFetchFilter(target) == [ kind |-> "pair", a |-> Me, b |-> target ]

\* the users the sidebar lists: everybody but the signed-in user
OtherUsers == Users \ {Me}

DmInit == [ targetUserId |-> "u2", messages |-> {}, input |-> <<>>, codeMode |-> FALSE,
            codeInput |-> <<>> ]

\* a fetchMessages call: sent, then answered by the database, then delivered
Fetch(target) == [ target |-> target, answered |-> FALSE, data |-> {} ]

\* the effect on [targetUserId, user?.id] at mount: fetchMessages() and subscribe
DmFetchesInit == [ calls |-> { Fetch(DmInit.targetUserId) }, notes |-> 0 ]

\* a change of the table: every subscribed channel is sent a notification
DmNotes == IF dmFetches.notes < MaxNotes THEN dmFetches.notes + 1 ELSE dmFetches.notes

\* the parent renders the chat with another user of the sidebar: the effect's
\* cleanup removes the channel, the effect fetches and subscribes again
DmSelectUser ==
    \E t \in OtherUsers :
        /\ t # dm.targetUserId
        /\ dm' = [dm EXCEPT !.targetUserId = t]
        /\ dmFetches' = [ calls |-> dmFetches.calls \cup { Fetch(t) }, notes |-> 0 ]
        /\ UNCHANGED <<proxy, EditorVars, DbVars, chat, unread, group>>

\* a change notification reaches the channel: its callback is fetchMessages
DmNotify ==
    /\ dmFetches.notes > 0
    /\ dmFetches' = [ calls |-> dmFetches.calls \cup { Fetch(dm.targetUserId) },
                      notes |-> dmFetches.notes - 1 ]
    /\ UNCHANGED <<proxy, EditorVars, DbVars, chat, dm, unread, group>>

\* the database runs the select of a fetchMessages call
DmAnswer ==
    \E f \in dmFetches.calls :
        /\ ~f.answered
        /\ dmFetches' = [ dmFetches EXCEPT !.calls = (@ \ {f}) \cup
               { [ f EXCEPT !.answered = TRUE,
                            !.data = DmSelect(Me, DmFetchFilter(f.target)) ] } ]
        /\ UNCHANGED <<proxy, EditorVars, DbVars, chat, dm, unread, group>>

\* fetchMessages resumes after its await: if (data) setMessages(data)
DmDeliver ==
    \E f \in dmFetches.calls :
        /\ f.answered
        /\ dm' = [dm EXCEPT !.messages = f.data]
        /\ dmFetches' = [ dmFetches EXCEPT !.calls = @ \ {f} ]
        /\ UNCHANGED <<proxy, EditorVars, DbVars, chat, unread, group>>

\* the select failed: data is null and the displayed messages stay
DmFetchFails ==
    \E f \in dmFetches.calls :
        /\ ~f.answered
        /\ dmFetches' = [ dmFetches EXCEPT !.calls = @ \ {f} ]
        /\ UNCHANGED <<proxy, EditorVars, DbVars, chat, dm, unread, group>>

DmTexts == { <<>>, <<"h", "i">> }

\* the input box: onChange={(e) => setInput(e.target.value)}
DmSetInput ==
    \E t \in DmTexts :
        /\ t # dm.input
        /\ dm' = [dm EXCEPT !.input = t]
        /\ UNCHANGED <<proxy, EditorVars, DbVars, chat, dmFetches, unread, group>>

\* the row DirectChat's sendMessage inserts
DmSentRow(c) ==
    LET hasCode == c.codeMode /\ Truthy(Trim(c.codeInput))
    IN [ text |-> IF Truthy(c.input) THEN c.input ELSE Null,
         code_content |-> IF hasCode THEN c.codeInput ELSE Null,
         code_language |-> IF hasCode THEN <<"cpp">> ELSE Null ]

\* sendMessage of the signed-in user to the chat's target
DmSend ==
    /\ Truthy(Trim(dm.input)) \/ Truthy(Trim(dm.codeInput))
    /\ nextId <= MaxRowId
    /\ LET sent == DmSentRow(dm)
           row == [ id |-> nextId, sender_id |-> Me, receiver_id |-> dm.targetUserId,
                    text |-> sent.text, code_content |-> sent.code_content,
                    code_language |-> sent.code_language ]
       IN IF DmInsertPolicy(Me, row)
          THEN /\ direct_messages' = direct_messages \cup {row}
               /\ dmFetches' = [dmFetches EXCEPT !.notes = DmNotes]
               /\ audit' = AuditInsert(audit, Me, row.id)
               /\ unread' = UnreadNotified(unread, "direct_messages", row.id, Me,
                                           row.receiver_id)
          ELSE UNCHANGED <<direct_messages, dmFetches, audit, unread>>
    /\ nextId' = nextId + 1
    /\ dm' = [dm EXCEPT !.input = <<>>, !.codeInput = <<>>, !.codeMode = FALSE]
    /\ UNCHANGED <<proxy, EditorVars, messages, saved_codes, chat, group>>

\* any client, signed in as uid or not at all, inserts a row through the API
DbInsertDmOf(senders, receivers) ==
    \E uid \in Users \cup {NoUser}, s \in senders, r \in receivers :
        /\ nextId <= MaxRowId
        /\ LET row == [ id |-> nextId, sender_id |-> s, receiver_id |-> r,
                        text |-> <<"h", "i">>, code_content |-> Null,
                        code_language |-> Null ]
           IN IF DmInsertPolicy(uid, row)
              THEN /\ direct_messages' = direct_messages \cup {row}
                   /\ dmFetches' = [dmFetches EXCEPT !.notes = DmNotes]
                   /\ audit' = AuditInsert(audit, uid, row.id)
                   /\ unread' = UnreadNotified(unread, "direct_messages", row.id, s, r)
              ELSE UNCHANGED <<direct_messages, dmFetches, audit, unread>>
        /\ nextId' = nextId + 1
        /\ UNCHANGED <<proxy, EditorVars, messages, saved_codes, chat, dm, group>>

DbInsertDm == DbInsertDmOf(Users, Users)

\* delete from direct_messages where id = row.id, as user uid
DmDelete(uid, row) ==
    IF DmDeletePolicy(uid, row) THEN direct_messages \ {row} ELSE direct_messages

\* any client deletes through the API: the rows the policy lets it delete
DbDeleteDm ==
    \E uid \in Users \cup {NoUser}, row \in direct_messages :
        /\ direct_messages' = DmDelete(uid, row)
        /\ IF DmDeletePolicy(uid, row)
           THEN /\ dmFetches' = [dmFetches EXCEPT !.notes = DmNotes]
                /\ audit' = AuditForget(audit, row.id)
           ELSE UNCHANGED <<dmFetches, audit>>
        /\ UNCHANGED <<proxy, EditorVars, messages, saved_codes, nextId, chat, dm, unread, group>>

-----------------------------------------------------------------------------
(* The unread-message hook.                                                *)

\* new Date().toISOString()
Now == nextId

\* created_at of a stored row
CreatedAt(row) ==
    IF row.id \in { e.id : e \in EarlierMessages } \cup { e.id : e \in EarlierDirectMessages }
    THEN NoTime ELSE row.id

\* row.created_at > t
CreatedAfter(created, t) == created >= t

markGroupSeenKeepsCount(u, now) ==
    IF u.user = NoUser THEN u
    ELSE [ u EXCEPT !.lastSeenGroup = now, !.storedGroup = now ]

\* markGroupSeen
markGroupSeen(u, now) ==
    IF u.user = NoUser THEN u
    ELSE [ u EXCEPT !.lastSeenGroup = now, !.storedGroup = now, !.unreadGroup = 0 ]

\* markDMSeen(senderId)
markDMSeen(u, senderId, now) ==
    IF u.user = NoUser THEN u
    ELSE [ u EXCEPT !.lastSeenDM = [ @ EXCEPT ![senderId] = now ],
                    !.storedDM = [ u.lastSeenDM EXCEPT ![senderId] = now ],
                    !.unreadDMs = [ @ EXCEPT ![senderId] = 0 ] ]

\* fetchUnreadGroup up to its await, with the lastSeenGroup of its render
fetchUnreadGroup(u, lsg, now) ==
    IF u.user = NoUser THEN u
    ELSE IF lsg = NoTime THEN markGroupSeen(u, now)
    ELSE [ u EXCEPT !.groupCalls = @ \cup
               { [ lastSeen |-> lsg, answered |-> FALSE, count |-> 0 ] } ]

\* fetchUnreadDMs up to its await, with the lastSeenDM of its render
fetchUnreadDMs(u, lsd) ==
    IF u.user = NoUser THEN u
    ELSE [ u EXCEPT !.dmCalls = @ \cup { [ lastSeenDM |-> lsd ] } ]

\* useEffect(..., [fetchUnreadGroup, fetchUnreadDMs])
FetchEffect(u, lsg, lsd, now) == fetchUnreadDMs(fetchUnreadGroup(u, lsg, now), lsd)

\* useEffect(..., [user]): load the last-seen timestamps from localStorage
LoadEffect(u) ==
    IF u.user = NoUser THEN u
    ELSE [ u EXCEPT !.lastSeenGroup = IF u.storedGroup # NoTime THEN u.storedGroup ELSE @,
                    !.lastSeenDM = u.storedDM ]

\* The effects of the render in which user is new, in the order they are
\* declared and with the state of that render, then those of the render
\* their state updates cause.
UserEffects(u, now) ==
    LET first == FetchEffect(LoadEffect(u), u.lastSeenGroup, u.lastSeenDM, now)
    IN IF first.lastSeenGroup # u.lastSeenGroup \/ first.lastSeenDM # u.lastSeenDM
       THEN FetchEffect(first, first.lastSeenGroup, first.lastSeenDM, now)
       ELSE first

\* the hook's state of a first render; localStorage stays
UnreadFresh(u) ==
    [ UnreadInit EXCEPT !.storedGroup = u.storedGroup, !.storedDM = u.storedDM ]

HookUnchanged == UNCHANGED <<proxy, EditorVars, DbVars, chat, dm, dmFetches, group>>

\* a component that uses the hook mounts, the user known or not yet
UnreadMount ==
    \E usr \in {NoUser, Me} :
        /\ ~unread.mounted
        /\ unread' = UserEffects([ UnreadFresh(unread) EXCEPT !.mounted = TRUE,
                                                              !.user = usr ], Now)
        /\ HookUnchanged

\* useAuth gives the user
UnreadUserArrives ==
    /\ unread.mounted
    /\ unread.user = NoUser
    /\ unread' = UserEffects([ unread EXCEPT !.user = Me ], Now)
    /\ HookUnchanged

\* the component unmounts: the channels are removed, the state is gone
UnreadUnmount ==
    /\ unread.mounted
    /\ unread' = UnreadFresh(unread)
    /\ HookUnchanged

\* the database counts for a query of fetchUnreadGroup
UnreadGroupAnswer ==
    \E q \in unread.groupCalls :
        /\ ~q.answered
        /\ unread' = [ unread EXCEPT !.groupCalls = (@ \ {q}) \cup
               { [ q EXCEPT !.answered = TRUE,
                            !.count = Cardinality({ row \in messages :
                                         /\ row.user_id # unread.user
                                         /\ CreatedAfter(CreatedAt(row), q.lastSeen) }) ] } ]
        /\ HookUnchanged

\* fetchUnreadGroup resumes: setUnreadGroup(count || 0)
UnreadGroupDeliver ==
    \E q \in unread.groupCalls :
        /\ q.answered
        /\ unread' = [ unread EXCEPT !.groupCalls = @ \ {q}, !.unreadGroup = q.count ]
        /\ HookUnchanged

\* the count query failed: count is null and setUnreadGroup(0)
UnreadGroupFails ==
    \E q \in unread.groupCalls :
        /\ ~q.answered
        /\ unread' = [ unread EXCEPT !.groupCalls = @ \ {q}, !.unreadGroup = 0 ]
        /\ HookUnchanged

\* the rows the select of fetchUnreadDMs returns: sender_id and created_at
\* of the rows the user received
UnreadDmData ==
    { [ id |-> row.id, sender_id |-> row.sender_id, created_at |-> CreatedAt(row) ] :
        row \in { r \in direct_messages : r.receiver_id = unread.user } }

\* the counts fetchUnreadDMs computes from the rows, with the lastSeenDM of its render
DmCounts(data, lsd) ==
    [ s \in Users |-> Cardinality({ d \in data :
                         d.sender_id = s /\ CreatedAfter(d.created_at, lsd[s]) }) ]

\* the select of a fetchUnreadDMs call is answered and the call resumes:
\* setUnreadDMs(counts)
UnreadDmDeliver ==
    \E q \in unread.dmCalls :
        /\ unread' = [ unread EXCEPT !.dmCalls = @ \ {q},
                                    !.unreadDMs = DmCounts(UnreadDmData, q.lastSeenDM) ]
        /\ HookUnchanged

\* the select failed: if (!data) return
UnreadDmFails ==
    \E q \in unread.dmCalls :
        /\ unread' = [ unread EXCEPT !.dmCalls = @ \ {q} ]
        /\ HookUnchanged

OnMessageInsertCountsAll(u, n) == [ u EXCEPT !.unreadGroup = @ + 1 ]

\* the callback of channel unread-group for payload n
OnMessageInsert(u, n) ==
    IF n.from # u.user THEN [ u EXCEPT !.unreadGroup = @ + 1 ] ELSE u

\* the callback of channel unread-dm for payload n
OnDmInsert(u, n) ==
    IF n.to = u.user THEN [ u EXCEPT !.unreadDMs = [ @ EXCEPT ![n.from] = @ + 1 ] ] ELSE u

\* an INSERT notification n reaches its channel
UnreadNotify(n) ==
    /\ n \in unread.notes
    /\ unread' = LET u == [ unread EXCEPT !.notes = @ \ {n} ]
                 IN IF n.table = "messages" THEN OnMessageInsert(u, n)
                    ELSE OnDmInsert(u, n)
    /\ HookUnchanged

UnreadNotifyAny == \E n \in unread.notes : UnreadNotify(n)

\* the component calls markGroupSeen() while no query of the hook is in
\* flight; lastSeenGroup is new, so the fetch effect runs again
CallMarkGroupSeen ==
    /\ unread.mounted
    /\ unread.groupCalls = {} /\ unread.dmCalls = {}
    /\ unread' = LET u == markGroupSeen(unread, Now)
                 IN IF unread.user = NoUser THEN u
                    ELSE FetchEffect(u, u.lastSeenGroup, u.lastSeenDM, Now)
    /\ HookUnchanged

\* the component calls markDMSeen(senderId) while no query of the hook is in
\* flight; lastSeenDM is new, so the fetch effect runs again
CallMarkDMSeen(senderId) ==
    /\ unread.mounted
    /\ unread.groupCalls = {} /\ unread.dmCalls = {}
    /\ unread' = LET u == markDMSeen(unread, senderId, Now)
                 IN IF unread.user = NoUser THEN u
                    ELSE FetchEffect(u, u.lastSeenGroup, u.lastSeenDM, Now)
    /\ HookUnchanged

CallMarkDMSeenAny == \E senderId \in Users \ {Me} : CallMarkDMSeen(senderId)

-----------------------------------------------------------------------------
Init ==
    /\ proxy = ProxyIdle
    /\ code = DEFAULT_CODE
    /\ output = <<>>
    /\ error = <<>>
    /\ running = FALSE
    /\ needsInput = FALSE
    /\ showSaved = FALSE
    /\ savedCodes = {}
    /\ term = TermInit
    /\ req = NoReq
    /\ hist = HistInit
    /\ messages = EarlierMessages
    /\ direct_messages = EarlierDirectMessages
    /\ saved_codes = EarlierSavedCodes
    /\ nextId = Cardinality(EarlierSavedCodes) + 1
    /\ chat = ChatInit
    /\ dm = DmInit
    /\ dmFetches = DmFetchesInit
    /\ unread = UnreadInit
    /\ group = GroupInit
    /\ audit = AuditInit


\* the compile proxies serving requests
ProxyNext ==
    \/ /\ WandboxServe
       /\ UNCHANGED <<EditorVars, DbVars, ChatVars>>
    \/ /\ PistonServe
       /\ UNCHANGED <<EditorVars, DbVars, ChatVars>>
    \/ /\ ProxyRejects("wandbox")
       /\ UNCHANGED <<EditorVars, DbVars, ChatVars>>
    \/ /\ ProxyRejects("piston")
       /\ UNCHANGED <<EditorVars, DbVars, ChatVars>>
    \/ /\ ProxyServiceFails("wandbox")
       /\ UNCHANGED <<EditorVars, DbVars, ChatVars>>
    \/ /\ ProxyServiceFails("piston")
       /\ UNCHANGED <<EditorVars, DbVars, ChatVars>>

SpecProxy == Init /\ [][ProxyNext]_vars

\* the code editor with its terminal and saved-code panel
EditorNext ==
    \/ RunPress
    \/ Respond
    \/ SetCode
    \/ TypeInput
    \/ KeyDownEnter
    \/ HandleClear
    \/ ToggleShowSaved
    \/ HandleSave
    \/ HandleLoad
    \/ HandleDelete

SpecEditor == Init /\ [][EditorNext]_vars

\* any client, signed in as uid or not at all, inserts a saved code through the API
DbInsertSaved ==
    \E uid \in Users \cup {NoUser}, owner \in Users, out \in {Null, <<"a", NL, "b">>} :
        /\ nextId <= MaxRowId
        /\ LET row == [ id |-> nextId, user_id |-> owner, title |-> <<"t">>,
                        code |-> DEFAULT_CODE, output |-> out ]
           IN IF SavedInsertPolicy(uid, row)
              THEN /\ saved_codes' = saved_codes \cup {row}
                   /\ audit' = AuditInsert(audit, uid, row.id)
              ELSE UNCHANGED <<saved_codes, audit>>
        /\ nextId' = nextId + 1
        /\ UNCHANGED <<proxy, EditorVars, messages, direct_messages, ChatVars>>

\* delete from saved_codes where id = row.id, as user uid
SavedDelete(uid, row) ==
    IF SavedDeletePolicy(uid, row) THEN saved_codes \ {row} ELSE saved_codes

\* any client deletes through the API: the rows the policy lets it delete
DbDeleteSaved ==
    \E uid \in Users \cup {NoUser}, row \in saved_codes :
        /\ saved_codes' = SavedDelete(uid, row)
        /\ audit' = IF SavedDeletePolicy(uid, row) THEN AuditForget(audit, row.id) ELSE audit
        /\ UNCHANGED <<proxy, EditorVars, messages, direct_messages, nextId, ChatVars>>

\* the saved-code panel of the signed-in user, and every client of the table
SavedNext ==
    \/ ToggleShowSaved
    \/ HandleSave
    \/ HandleDelete
    \/ DbInsertSaved
    \/ DbDeleteSaved

SpecSaved == Init /\ [][SavedNext]_vars

\* any client, signed in as uid or not at all, inserts a group message through the API
DbInsertMessageOf(authors) ==
    \E uid \in Users \cup {NoUser}, author \in authors :
        /\ nextId <= MaxRowId
        /\ LET row == [ id |-> nextId, user_id |-> author, text |-> <<"h", "i">>,
                        code_content |-> <<"x">>, code_language |-> <<"python">> ]
           IN IF MessagesInsertPolicy(uid, row)
              THEN /\ messages' = messages \cup {row}
                   /\ audit' = AuditInsertMessage(audit, uid, row)
                   /\ group' = [group EXCEPT !.notes = GroupNotes]
                   /\ unread' = UnreadNotified(unread, "messages", row.id, author, NoUser)
              ELSE UNCHANGED <<messages, audit, group, unread>>
        /\ nextId' = nextId + 1
        /\ UNCHANGED <<proxy, EditorVars, direct_messages, saved_codes, chat, dm, dmFetches>>

DbInsertMessage == DbInsertMessageOf(Users)

\* the column values an update through the API sets
AuthorPatches == [ column : {"user_id"}, value : {"u1", "u3"} ]
ContentPatches ==
    [ column : {"code_content"}, value : { <<"y">> } ] \cup
    [ column : {"text"}, value : { <<"z">> } ]

Patched(row, patch) ==
    CASE patch.column = "code_content" -> [row EXCEPT !.code_content = patch.value]
      [] patch.column = "text" -> [row EXCEPT !.text = patch.value]
      [] patch.column = "user_id" -> [row EXCEPT !.user_id = patch.value]

\* update messages set column = value where id = row.id, as user uid: the row
\* is updated when the policy admits it before and after the update
MessagesUpdate(uid, row, patch) ==
    IF MessagesUpdatePolicy(uid, row) /\ MessagesUpdatePolicy(uid, Patched(row, patch))
    THEN (messages \ {row}) \cup { Patched(row, patch) }
    ELSE messages

\* any client updates a group message through the API
DbUpdateMessage(patches) ==
    \E uid \in Users \cup {NoUser}, row \in messages, patch \in patches :
        /\ messages' = MessagesUpdate(uid, row, patch)
        /\ audit' = IF messages' # messages /\ patch.column = "code_content"
                    THEN AuditWrite(audit, uid, row.id) ELSE audit
        /\ group' = IF MessagesUpdatePolicy(uid, row) /\ MessagesUpdatePolicy(uid, Patched(row, patch))
                    THEN [group EXCEPT !.notes = GroupNotes] ELSE group
        /\ UNCHANGED <<proxy, EditorVars, direct_messages, saved_codes, nextId, chat, dm, dmFetches, unread>>

\* delete from messages where id = row.id, as user uid
MessagesDelete(uid, row) ==
    IF MessagesDeletePolicy(uid, row) THEN messages \ {row} ELSE messages

\* any client deletes a group message through the API
DbDeleteMessage ==
    \E uid \in Users \cup {NoUser}, row \in messages :
        /\ messages' = MessagesDelete(uid, row)
        /\ IF MessagesDeletePolicy(uid, row)
           THEN /\ audit' = AuditForget(audit, row.id)
                /\ group' = [group EXCEPT !.notes = GroupNotes]
           ELSE UNCHANGED <<audit, group>>
        /\ UNCHANGED <<proxy, EditorVars, direct_messages, saved_codes, nextId, chat, dm, dmFetches, unread>>

\* every client of the three tables, through the API
DbNext ==
    \/ DbInsertMessage
    \/ DbUpdateMessage(AuthorPatches)
    \/ DbDeleteMessage
    \/ DbInsertDm
    \/ DbDeleteDm
    \/ DbInsertSaved
    \/ DbDeleteSaved

SpecDb == Init /\ [][DbNext]_vars

\* the group chat of the signed-in user
GroupNext ==
    \/ ChatSetInput
    \/ ChatToggleCodeMode
    \/ ChatSetCodeInput
    \/ ChatSend

SpecGroup == Init /\ [][GroupNext]_vars

\* the group chat's list and its edit box, and every client that updates messages
EditNext ==
    \/ GroupNotify
    \/ GroupAnswer
    \/ GroupDeliver
    \/ GroupFetchFails
    \/ StartEdit
    \/ SetEditContent
    \/ SaveEdit
    \/ CancelEdit
    \/ DbUpdateMessage(ContentPatches)

SpecEdit == Init /\ [][EditNext]_vars

\* the direct chat of the signed-in user, and every client of the table
DmNext ==
    \/ DmSelectUser
    \/ DmNotify
    \/ DmAnswer
    \/ DmDeliver
    \/ DmFetchFails
    \/ DmSetInput
    \/ DmSend
    \/ DbInsertDm
    \/ DbDeleteDm

SpecDm == Init /\ [][DmNext]_vars

\* both chats' lists under the change notifications of their tables: inserts
\* and updates of group messages, deletes of direct messages
RealtimeNext ==
    \/ GroupNotify
    \/ GroupAnswer
    \/ GroupDeliver
    \/ GroupFetchFails
    \/ DmNotify
    \/ DmAnswer
    \/ DmDeliver
    \/ DmFetchFails
    \/ DbInsertMessage
    \/ DbUpdateMessage(AuthorPatches)
    \/ DbDeleteDm

SpecRealtime == Init /\ [][RealtimeNext]_vars

\* both chats' queries when every select succeeds, and clients inserting
\* group messages and deleting direct messages
RaceNext ==
    \/ GroupNotify
    \/ GroupAnswer
    \/ GroupDeliver
    \/ DmNotify
    \/ DmAnswer
    \/ DmDeliver
    \/ DbInsertMessage
    \/ DbDeleteDm

SpecRace == Init /\ [][RaceNext]_vars

\* the unread-message hook, and clients inserting messages of the user and
\* of others, to the user and to others
UnreadNext ==
    \/ UnreadMount
    \/ UnreadUserArrives
    \/ UnreadUnmount
    \/ UnreadGroupAnswer
    \/ UnreadGroupDeliver
    \/ UnreadGroupFails
    \/ UnreadDmDeliver
    \/ UnreadDmFails
    \/ UnreadNotifyAny
    \/ CallMarkGroupSeen
    \/ CallMarkDMSeenAny
    \/ DbInsertMessageOf({Me, "u2"})
    \/ DbInsertDmOf({Me, "u2"}, {Me, "u3"})

SpecUnread == Init /\ [][UnreadNext]_vars

\* the hook's group counter when every query succeeds, and clients
\* inserting group messages of the user and of another user
CountNext ==
    \/ UnreadMount
    \/ UnreadUserArrives
    \/ UnreadUnmount
    \/ UnreadGroupAnswer
    \/ UnreadGroupDeliver
    \/ UnreadDmDeliver
    \/ UnreadNotifyAny
    \/ CallMarkGroupSeen
    \/ DbInsertMessageOf({Me, "u2"})

SpecCount == Init /\ [][CountNext]_vars

-----------------------------------------------------------------------------
(* Claims about the editor and its terminal.                                *)

\* the texts of the lines displayed as program output, in display order
OutTexts(ls) ==
    LET outs == SelectSeq(ls, LAMBDA l : l.type = "output")
    IN [ i \in 1..Len(outs) |-> outs[i].text ]

\* the lines of an output snapshot as the terminal displays them
SnapshotLines(text) == SelectSeq(Split(text), LAMBDA l : l # <<>>)

IsPrefixOf(p, s) == Len(p) <= Len(s) /\ SubSeq(s, 1, Len(p)) = p

HasFinishedNotice == \E i \in 1..Len(term.lines) : term.lines[i] = Line("info", Finished)

\* C1: when the terminal appends output lines for a new snapshot that extends
\* what it already displays, it appends only the part beyond the displayed
\* output: afterwards the displayed output lines are the snapshot's lines, each
\* once, and no displayed line is displayed a second time.
C1_AppendsOnlyTheDelta ==
    [][ LET shown == OutTexts(term.lines)
            after == OutTexts(term'.lines)
            snap == SnapshotLines(output')
        IN (after # shown /\ IsPrefixOf(shown, after) /\ IsPrefixOf(shown, snap))
              => after = snap ]_vars

C6_EditorNeverShowsSuccess ==
    (hist.crashed /\ ~running) => ~HasFinishedNotice

-----------------------------------------------------------------------------
(* Claims about the compile proxies.                                       *)

\* what the service answered the served request with, endpoint by endpoint
ServiceExitZero ==
    IF proxy.endpoint = "wandbox" THEN WandboxStatus(proxy.wandbox) = <<"0">>
    ELSE proxy.piston.run_code = 0
ServiceOutput ==
    IF proxy.endpoint = "wandbox" THEN proxy.wandbox.program_output
    ELSE proxy.piston.run_output
ServiceCompilerError ==
    IF proxy.endpoint = "wandbox" THEN proxy.wandbox.compiler_error
    ELSE proxy.piston.compile_stderr
ServiceCompiled ==
    IF proxy.endpoint = "wandbox" THEN proxy.wandbox.compiled ELSE proxy.piston.compiled

\* C4: for a service answer with a non-zero exit status, non-empty compiler
\* error text and empty program output, either endpoint answers success = false,
\* compileError = the compiler error text, and an empty output field.
C4_CompileErrorIsReported ==
    (proxy.kind = "200" /\ ~ServiceExitZero /\ ServiceCompilerError # <<>>
        /\ ServiceOutput = <<>>)
    => /\ proxy.response.success = FALSE
       /\ proxy.response.compileError = ServiceCompilerError
       /\ proxy.response.output = <<>>

\* the Wandbox endpoint answered a failed compilation
C4_Witness ==
    /\ proxy.kind = "200"
    /\ proxy.endpoint = "wandbox"
    /\ ~proxy.wandbox.compiled
    /\ proxy.wandbox.status = <<"1">>
    /\ proxy.wandbox.compiler_error = <<"cc: text">>
    /\ proxy.response.compileError = <<"cc: text">>
    /\ ~proxy.response.success

\* C5: for a service answer with exit status zero and non-empty program output,
\* either endpoint answers success = true, whatever the compiler texts and the
\* program's stderr are.
C5_ExitZeroWithOutputIsSuccess ==
    (proxy.kind = "200" /\ ServiceExitZero /\ ServiceOutput # <<>>)
    => proxy.response.success = TRUE

\* C6: for a program that compiled and exited with a status other than zero,
\* the endpoint's answer has an empty compileError.
C6_CrashIsNotACompileError ==
    (proxy.kind = "200" /\ ServiceCompiled /\ ~ServiceExitZero)
    => proxy.response.compileError = <<>>

\* C7: the stdin an endpoint forwards to the service is the request's stdin,
\* the empty string when the request has none.
C7_StdinForwardedUnchanged ==
    proxy.kind \in {"200", "500"}
    => proxy.forwarded.stdin =
          (IF proxy.body.stdin = Undefined THEN <<>> ELSE proxy.body.stdin)

-----------------------------------------------------------------------------
(* Claims about the chats and the saved codes.                             *)

\* C8: a group message sent with the text input empty or only whitespace and
\* a non-blank code snippet entered inserts one row with text = null and
\* code_content = the entered code.
C8_CodeOnlyMessage ==
    [][ (messages' # messages /\ Trim(chat.input) = <<>> /\ Trim(chat.codeInput) # <<>>)
           => /\ Cardinality(messages' \ messages) = 1
              /\ \A row \in messages' \ messages :
                    row.text = Null /\ row.code_content = chat.codeInput ]_vars

AllClients == Users \cup {NoUser}

\* C9: a direct message is returned to its sender and to its receiver by a
\* select without filter, no select of any filter returns it to anybody else,
\* and the direct chat displays only messages exchanged between the signed-in
\* user and the chat's target.
C9_OnlyTheTwoParties ==
    /\ \A row \in direct_messages :
          /\ row \in DmSelect(row.sender_id, [kind |-> "all", a |-> Me, b |-> Me])
          /\ row \in DmSelect(row.receiver_id, [kind |-> "all", a |-> Me, b |-> Me])
    /\ \A uid \in AllClients, f \in DmFilters : \A row \in DmSelect(uid, f) :
          uid \in {row.sender_id, row.receiver_id}
    /\ \A m \in dm.messages :
          \/ (m.sender_id = Me /\ m.receiver_id = dm.targetUserId)
          \/ (m.sender_id = dm.targetUserId /\ m.receiver_id = Me)

\* C10: no select on saved_codes returns a row to a client that is not the
\* row's owner, and the saved-code panel lists only the signed-in user's rows.
C10_OnlyTheOwnerReads ==
    /\ \A uid \in AllClients : \A row \in SavedSelectAll(uid) : row.user_id = uid
    /\ \A uid \in AllClients, owner \in Users :
          \A row \in SavedSelectEq(uid, owner) : row.user_id = uid
    /\ \A s \in savedCodes : s.user_id = Me

\* the panel lists the signed-in user's codes while another user, who reads
\* a row of their own, is returned none of them
C10_Witness ==
    /\ showSaved
    /\ savedCodes # {}
    /\ \E row \in saved_codes : row.user_id = Me
    /\ SavedSelectAll("u3") # {}
    /\ SavedSelectEq("u3", Me) = {}

-----------------------------------------------------------------------------
(* Claims about what the tables let their clients write.                   *)

\* C11: every stored group message, direct message and saved code that a
\* client inserted has that client, a signed-in user, as its author, sender or
\* owner.
C11_InsertsOnlyAsOneself ==
    \A e \in audit.inserted :
        /\ e.by # NoUser
        /\ \A row \in messages : row.id = e.id => row.user_id = e.by
        /\ \A row \in direct_messages : row.id = e.id => row.sender_id = e.by
        /\ \A row \in saved_codes : row.id = e.id => row.user_id = e.by

\* a direct message inserted through the API by u3 is stored, with u3 as sender
C11_Witness ==
    \E e \in audit.inserted, row \in direct_messages :
        e.by = "u3" /\ row.id = e.id /\ row.sender_id = "u3" /\ row.receiver_id = "u2"

\* ---------------------------------------------------------------------------
\* C12: a stored group message is changed only by its author and only in its
\* code content: its text, its language and its author are the values it was
\* inserted with, its code content was last written by its author, and the
\* chat is in edit mode only on a message of the signed-in user that has code.
C12_OnlyTheCodeContentChanges ==
    /\ \A row \in messages : \A o \in audit.orig :
           o.id = row.id =>
               /\ row.text = o.text
               /\ row.code_language = o.code_language
               /\ row.user_id = o.user_id
    /\ \A row \in messages : \A w \in audit.writer :
           w.id = row.id => w.by = row.user_id
    /\ group.editingId # NoId =>
           \E msg \in messages : msg.id = group.editingId /\ msg.user_id = Me

\* ---------------------------------------------------------------------------
\* C13: a row is deleted only by its owner (a saved code by the user who
\* created it, a group message by its author, a direct message by its sender
\* and not by its receiver or anyone else); a delete by anyone else leaves
\* the table unchanged.
C13_OnlyTheOwnerDeletes ==
    \A uid \in AllClients :
        /\ \A row \in messages :
               MessagesDelete(uid, row) =
                   IF uid = row.user_id THEN messages \ {row} ELSE messages
        /\ \A row \in direct_messages :
               DmDelete(uid, row) =
                   IF uid = row.sender_id THEN direct_messages \ {row} ELSE direct_messages
        /\ \A row \in saved_codes :
               SavedDelete(uid, row) =
                   IF uid = row.user_id THEN saved_codes \ {row} ELSE saved_codes

\* the direct message u3 -> u1 was deleted, the one u1 -> u2 is still stored
\* and its receiver u2 does not delete it
C13_Witness ==
    /\ \A row \in direct_messages : row.id # 12
    /\ \E row \in direct_messages :
           /\ row.id = 11 /\ row.receiver_id = "u2"
           /\ DmDelete("u2", row) = direct_messages
           /\ DmDelete("u1", row) # direct_messages

\* ---------------------------------------------------------------------------
\* C14: every change notification on table messages makes the group chat
\* query the whole list again and every notification on direct_messages makes
\* the open direct chat query its conversation again; when the answer of a
\* query arrives the displayed list is the answer's rows, and a displayed
\* list changes in no other way.
C14_NotificationRefetchesAndReplaces ==
    [][ /\ group'.notes < group.notes => GroupFetch \in group'.calls
        /\ dmFetches'.notes < dmFetches.notes =>
               Fetch(dm.targetUserId) \in dmFetches'.calls
        /\ \A f \in group.calls \ group'.calls :
               f.answered => group'.messages = f.data
        /\ \A f \in dmFetches.calls \ dmFetches'.calls :
               f.answered => dm'.messages = f.data
        /\ group'.messages # group.messages =>
               \E f \in group.calls \ group'.calls : f.answered
        /\ dm'.messages # dm.messages =>
               \E f \in dmFetches.calls \ dmFetches'.calls : f.answered
      ]_vars

\* after an insert the group chat shows the new message beside the earlier
\* ones, and after a delete the direct chat no longer shows the deleted one
C14_Witness ==
    /\ group.messages = messages
    /\ \E row \in group.messages : row.id \notin { e.id : e \in EarlierMessages }
    /\ dm.messages = {}
    /\ \A row \in direct_messages : row.id # 11
    /\ group.calls = {} /\ dmFetches.calls = {}

\* ---------------------------------------------------------------------------
\* a response reports a failure: a transport failure (fnError or a thrown
\* exception), a compile error or a runtime error
Failed(o) ==
    o.kind # "data" \/ Truthy(o.data.compileError) \/ Truthy(o.data.runtimeError)

\* the failure's text
FailureText(o) ==
    IF o.kind # "data" THEN o.msg
    ELSE IF Truthy(o.data.compileError) THEN o.data.compileError
    ELSE o.data.runtimeError

\* text ends a line of ls
DisplaysText(ls, text) ==
    \E i \in 1..Len(ls) :
        /\ Len(text) <= Len(ls[i].text)
        /\ SubSeq(ls[i].text, Len(ls[i].text) - Len(text) + 1, Len(ls[i].text)) = text

\* C15: a failed request is never retried: a request is issued only by a
\* press of Run or a stdin submission, one per press or submission and none
\* while one is in flight, and when a response reports a failure the terminal
\* displays the failure's text.
C15_FailureShownNotRetried ==
    [][ /\ (req'.active /\ req' # req) =>
               /\ ~req.active
               /\ RunPress \/ KeyDownEnter
        /\ \A o \in InvokeOutcomes :
               (RespondWith(o) /\ Failed(o)) =>
                   /\ ~req'.active
                   /\ DisplaysText(term'.lines, FailureText(o))
      ]_vars

\* ---------------------------------------------------------------------------
\* the lines of a text: its parts between line breaks, a last line break
\* ending the last line
TextLines(text) ==
    LET parts == Split(text)
    IN IF parts[Len(parts)] = <<>> THEN SubSeq(parts, 1, Len(parts) - 1) ELSE parts

\* the lines displayed as program output
ShownOutput(ls) == SelectSeq(ls, LAMBDA l : l.type = "output")

\* C16: when a response without a failure arrives, the output lines the
\* terminal displays are exactly the lines of the response's output text:
\* none is omitted and no earlier line remains displayed as program output.
C16_DisplaysTheLastResponse ==
    [][ \A o \in InvokeOutcomes :
            (RespondWith(o) /\ ~Failed(o)) =>
                /\ ~req'.active
                /\ ShownOutput(term'.lines) =
                       [ i \in 1..Len(TextLines(o.data.output)) |->
                           Line("output", TextLines(o.data.output)[i]) ]
      ]_vars

\* ---------------------------------------------------------------------------
\* the terminal after its reset
TermReset ==
    [ lines |-> << Line("info", Compiling) >>, currentInput |-> <<>>,
      collectedInputs |-> <<>>, showCursor |-> FALSE,
      prevOutputRef |-> <<>>, prevErrorRef |-> <<>> ]

\* C20: whenever running becomes true the terminal resets: its lines are the
\* single progress notice, the pending input and the collected inputs are
\* empty, the input field is hidden and the previous output and error are
\* forgotten.
C20_RunningResetsTheTerminal ==
    [][ (~running /\ running') => term' = TermReset ]_vars

\* a stdin submission has just started a request: the terminal that showed
\* the echoed line and held the collected input is reset
C20_Witness ==
    /\ running
    /\ req.active
    /\ hist.submitted # <<>>
    /\ term = TermReset

\* ---------------------------------------------------------------------------
\* C17: when a group last-seen timestamp is stored for the user, the hook's
\* mount (or the user becoming available) keeps the stored timestamp, takes it
\* as its lastSeenGroup and counts the unread group messages with it: the
\* automatic mark-as-seen happens only when nothing is stored.
C17_StoredTimestampIsKept ==
    [][ (unread.user = NoUser /\ unread'.user # NoUser /\ unread.storedGroup # NoTime) =>
            /\ unread'.storedGroup = unread.storedGroup
            /\ unread'.lastSeenGroup = unread.storedGroup
            /\ \A q \in unread'.groupCalls : q.lastSeen = unread.storedGroup
      ]_vars

\* ---------------------------------------------------------------------------
\* C18: an insert notification of a group message raises the unread group
\* count by exactly one when its author is another user and leaves it
\* unchanged when the author is the user; an insert notification of a direct
\* message raises only its sender's counter, by exactly one, and only when
\* the user is its receiver.
C18_NotificationCountsOnce ==
    [][ \A n \in unread.notes :
            UnreadNotify(n) =>
                IF n.table = "messages"
                THEN /\ unread'.unreadGroup =
                            unread.unreadGroup + (IF n.from # unread.user THEN 1 ELSE 0)
                     /\ unread'.unreadDMs = unread.unreadDMs
                ELSE /\ unread'.unreadGroup = unread.unreadGroup
                     /\ unread'.unreadDMs =
                            [ unread.unreadDMs EXCEPT
                                ![n.from] = @ + (IF n.to = unread.user THEN 1 ELSE 0) ]
      ]_vars

\* the hook was mounted before u2 sent the user a direct message: the
\* notification was handled and u2's counter is 1, no other counter is raised
C18_Witness ==
    /\ unread.mounted /\ unread.user = Me
    /\ unread.notes = {} /\ unread.dmCalls = {} /\ unread.groupCalls = {}
    /\ unread.lastSeenGroup = Cardinality(EarlierSavedCodes) + 1
    /\ \E row \in direct_messages :
           /\ row.id = unread.lastSeenGroup
           /\ row.sender_id = "u2" /\ row.receiver_id = Me
    /\ unread.unreadDMs["u2"] = 1
    /\ unread.unreadDMs[Me] = 0
    /\ unread.unreadGroup = 0

\* ---------------------------------------------------------------------------
\* C19: markGroupSeen sets the unread group count to 0 and leaves every
\* direct-message counter and last-seen entry unchanged; markDMSeen(s) removes
\* only the counter of s and sets only the last-seen entry of s, leaving the
\* group count, the group timestamp and every other sender's counter and
\* entry unchanged; with no signed-in user both change nothing.
C19_MarkSeenTouchesOnlyItsOwn ==
    [][ /\ CallMarkGroupSeen =>
               IF unread.user = NoUser THEN unread' = unread
               ELSE /\ unread'.unreadGroup = 0
                    /\ unread'.unreadDMs = unread.unreadDMs
                    /\ unread'.lastSeenDM = unread.lastSeenDM
                    /\ unread'.storedDM = unread.storedDM
        /\ \A s \in Users \ {Me} :
               CallMarkDMSeen(s) =>
                   IF unread.user = NoUser THEN unread' = unread
                   ELSE /\ unread'.unreadDMs = [ unread.unreadDMs EXCEPT ![s] = 0 ]
                        /\ unread'.lastSeenDM = [ unread.lastSeenDM EXCEPT ![s] = Now ]
                        /\ unread'.unreadGroup = unread.unreadGroup
                        /\ unread'.lastSeenGroup = unread.lastSeenGroup
                        /\ unread'.storedGroup = unread.storedGroup
      ]_vars

\* u3's earlier message and u2's new one were both counted, then the
\* conversation with u2 was marked as seen: u3's counter is still 1
C19_Witness ==
    /\ unread.mounted /\ unread.user = Me
    /\ unread.unreadDMs["u3"] = 1
    /\ unread.unreadDMs["u2"] = 0
    /\ unread.lastSeenDM["u3"] = NoTime
    /\ unread.lastSeenDM["u2"] = Now
    /\ unread.lastSeenGroup < Now
    /\ unread.notes = {}
    /\ \E row \in direct_messages :
           /\ row.sender_id = "u2" /\ row.receiver_id = Me
           /\ CreatedAt(row) # NoTime

\* ---------------------------------------------------------------------
\* C21: after Clear the terminal's own state is its initial state
\* whatever came before (no displayed lines, no collected input lines,
\* empty pending input, input field hidden, no remembered previous output
\* or error), and Clear issues no compile/run request: the request in
\* flight, if any, and the requests sent so far are what they were.
C21_ClearRestoresTheInitialState ==
    [][ HandleClear =>
            /\ term' = TermInit
            /\ req' = req
            /\ hist'.requests = hist.requests
            /\ Props' = Props ]_vars

\* Clear has acted after a run that left output and remembered it
C21_Witness ==
    /\ term = TermInit
    /\ ~running
    /\ Truthy(output)
    /\ hist.requests # <<>>

\* ---------------------------------------------------------------------
\* C22: when several queries of a chat list were in flight and all have
\* completed, the displayed list is the result of the most recently issued
\* one.  Every change of the table sends a notification and every
\* notification issues a query, so when no query is in flight and no
\* notification is pending the most recently issued query was issued after
\* the last change, and its result, in runs where no select fails, is the
\* table as the user may read it now: the displayed list is that.
C22_LatestQueryWins ==
    /\ (group.calls = {} /\ group.notes = 0) =>
           group.messages = MessagesSelect(Me)
    /\ (dmFetches.calls = {} /\ dmFetches.notes = 0) =>
           dm.messages = DmSelect(Me, DmFetchFilter(dm.targetUserId))

\* ---------------------------------------------------------------------
\* C23: the direct chat's displayed messages always belong to the
\* conversation between the current user and the currently selected target
\* user, also when the target is switched while a fetch for the previous
\* target is in flight.
C23_DisplayedIsTheSelectedConversation ==
    \A row \in dm.messages : DmMatches(DmFetchFilter(dm.targetUserId), row)

\* ---------------------------------------------------------------------
\* C25: sendMessage of the group chat and of the direct chat inserts
\* nothing when the text input and the code input are both blank after
\* trimming, and every row it inserts has a text or a code_content that is
\* not null, whatever the text input, the code input and the code mode.
C25_SendsNoEmptyRow ==
    [][ /\ (Trim(chat.input) = <<>> /\ Trim(chat.codeInput) = <<>>) =>
               messages' = messages
        /\ \A row \in messages' \ messages :
               row.text # Null \/ row.code_content # Null
        /\ (Trim(dm.input) = <<>> /\ Trim(dm.codeInput) = <<>>) =>
               direct_messages' = direct_messages
        /\ \A row \in direct_messages' \ direct_messages :
               row.text # Null \/ row.code_content # Null ]_vars

\* ---------------------------------------------------------------------
\* the group messages of other users created after time t
UnreadSince(t) ==
    { row \in messages : row.user_id # unread.user /\ CreatedAfter(CreatedAt(row), t) }

\* C24: at every quiescent point (the hook has its user and a last-seen
\* timestamp, no count query is in flight and no insert notification of a
\* group message is pending) the unread group count is the number of group
\* messages of other users created after the last-seen timestamp; no
\* message is counted by a count query and again by its notification.
C24_CountIsExactWhenQuiet ==
    ( /\ unread.mounted
      /\ unread.user # NoUser
      /\ unread.lastSeenGroup # NoTime
      /\ unread.groupCalls = {}
      /\ \A n \in unread.notes : n.table # "messages" )
    => unread.unreadGroup = Cardinality(UnreadSince(unread.lastSeenGroup))

====
